---- MODULE Spec2Model ----
(***************************************************************************)
(* Session engine of the betting companion (engine/session.ts and          *)
(* engine/ladder.ts): a session state is replaced wholesale by processBet  *)
(* and processBridgingDecision.                                            *)
(*                                                                         *)
(* Amounts (stakes, pnl, bankroll, targets) are exact rationals written in *)
(* units of 1/PctDen of the currency unit, and recoveryTargetPct is        *)
(* pctNum/PctDen, so |pnl| * recoveryTargetPct is an exact integer number  *)
(* of units.  Ladder and rung indices are 0-based as in the source;        *)
(* sequences are 1-based, hence the "+ 1" at every lookup.                 *)
(*                                                                         *)
(* Three specifications share the variables: Spec calls the engine         *)
(* directly, StoreSpec drives it through the session store (startSession,  *)
(* recordBet, makeDecision, resetSession, setDecisionMode; the store's     *)
(* read-only getters and endSession change nothing and are not actions),   *)
(* and PresetSpec applies the preset lookups of engine/presets.ts.         *)
(***************************************************************************)
EXTENDS Integers, Sequences, FiniteSets, TLC

VARIABLES config, strategy, state, prev, call, store, lookup

vars == <<config, strategy, state, prev, call, store, lookup>>

\* ---------------------------------------------------------------- bounds
\* denominator of recoveryTargetPct and of the amount unit
PctDen == 2
\* largest maxRounds a session config is drawn with
MaxRounds == 4
\* getStake is probed at every index in -MaxProbeIndex..MaxProbeIndex
MaxProbeIndex == 5
\* largest crossoverOffset a strategy is drawn with
MaxOffset == 2

Max(a, b) == IF a >= b THEN a ELSE b
Min(a, b) == IF a <= b THEN a ELSE b
Abs(a) == IF a < 0 THEN 0 - a ELSE a

\* ---------------------------------------------------------------- ladder.ts
\* createLadder: a non-empty sequence of positive stakes, given in currency
\* units and stored in units of 1/PctDen
createLadder(name, stakes) ==
  [name |-> name, stakes |-> [i \in 1..Len(stakes) |-> stakes[i] * PctDen]]

getMaxIndex(ladder) == Len(ladder.stakes) - 1

getStake_AbsIndex(ladder, index) ==
  LET clampedIndex == Min(Abs(index), getMaxIndex(ladder))
  IN  ladder.stakes[clampedIndex + 1]

getStake(ladder, index) ==
  LET clampedIndex == Max(0, Min(index, getMaxIndex(ladder)))
  IN  ladder.stakes[clampedIndex + 1]

\* ---------------------------------------------------------------- inputs
LadderSets ==
  { << createLadder("L1", <<1>>), createLadder("L2", <<2>>), createLadder("L3", <<3>>) >>,
    << createLadder("L1", <<1, 2, 3>>), createLadder("L2", <<2, 4, 6>>) >>,
    << createLadder("L1", <<2, 1>>) >>,
    << createLadder("L1", <<1>>), createLadder("L2", <<1, 2>>) >> }

BridgingPolicies ==
  {"advance_to_next_ladder_start", "carry_over_index_delta", "stop_at_table_limit"}

Strategies ==
  [ ladders : LadderSets,
    bridgingPolicy : BridgingPolicies,
    pctNum : 1..PctDen,
    crossoverOffset : {0, MaxOffset} ]

\* tableMax 0 stands for an absent tableMax: the code tests !config.tableMax
SessionConfigs ==
  [ bankroll : {3 * PctDen, 20 * PctDen},
    profitTarget : {2 * PctDen, 20 * PctDen},
    stopLossAbs : {1 * PctDen, 20 * PctDen},
    maxRounds : {1, MaxRounds},
    tableMax : {0, 2 * PctDen},
    startingLadder : {-1, 1, 3} ]

DecisionModes == {"at_bridging_only", "every_bet"}
Decisions == {"carry_over", "write_off", "stop_session", "unrecognized"}

\* ---------------------------------------------------------------- session.ts
createInitialState_NoLowerClamp(strat, startingLadder) ==
  LET validStartingLadder == Min(startingLadder, Len(strat.ladders) - 1)
  IN  [ currentLadder |-> validStartingLadder,
        currentIndex |-> 0,
        pnl |-> 0,
        rounds |-> 0,
        totalWagered |-> 0,
        maxStake |-> 0,
        maxDrawdown |-> 0,
        peakPnl |-> 0,
        ladderTouches |-> [i \in 0..(Len(strat.ladders) - 1) |-> 0],
        topTouches |-> 0,
        stopped |-> FALSE,
        stopReason |-> "null",
        inRecovery |-> FALSE,
        recoveryTargetPnl |-> 0,
        awaitingDecision |-> FALSE,
        pendingDecisionType |-> "null" ]

createInitialState(strat, startingLadder) ==
  LET validStartingLadder == Max(0, Min(startingLadder, Len(strat.ladders) - 1))
  IN  [ currentLadder |-> validStartingLadder,
        currentIndex |-> 0,
        pnl |-> 0,
        rounds |-> 0,
        totalWagered |-> 0,
        maxStake |-> 0,
        maxDrawdown |-> 0,
        peakPnl |-> 0,
        ladderTouches |-> [i \in 0..(Len(strat.ladders) - 1) |-> 0],
        topTouches |-> 0,
        stopped |-> FALSE,
        stopReason |-> "null",
        inRecovery |-> FALSE,
        recoveryTargetPnl |-> 0,
        awaitingDecision |-> FALSE,
        pendingDecisionType |-> "null" ]

getCurrentStake(s, strat) ==
  getStake(strat.ladders[s.currentLadder + 1], s.currentIndex)

getCurrentBankroll(s, cfg) == cfg.bankroll + s.pnl

canAffordStake_IgnoresPnl(s, cfg, strat) ==
  cfg.bankroll >= getCurrentStake(s, strat)

canAffordStake_Strict(s, cfg, strat) ==
  getCurrentBankroll(s, cfg) > getCurrentStake(s, strat)

canAffordStake(s, cfg, strat) ==
  getCurrentBankroll(s, cfg) >= getCurrentStake(s, strat)

exceedsTableMax_FirstLadder(s, cfg, strat) ==
  IF cfg.tableMax = 0 THEN FALSE
  ELSE getStake(strat.ladders[1], s.currentIndex) > cfg.tableMax

exceedsTableMax_Inclusive(s, cfg, strat) ==
  IF cfg.tableMax = 0 THEN FALSE
  ELSE getCurrentStake(s, strat) >= cfg.tableMax

exceedsTableMax(s, cfg, strat) ==
  IF cfg.tableMax = 0 THEN FALSE
  ELSE getCurrentStake(s, strat) > cfg.tableMax

handleBridging_AdvanceWithoutDecision(s, strat) ==
  LET atLastLadder == s.currentLadder = Len(strat.ladders) - 1
      newState == [s EXCEPT !.topTouches = s.topTouches + 1]
  IN  IF strat.bridgingPolicy = "stop_at_table_limit"
      THEN [newState EXCEPT !.stopped = TRUE, !.stopReason = "table_limit"]
      ELSE IF atLastLadder
      THEN [newState EXCEPT !.stopped = TRUE, !.stopReason = "table_limit"]
      ELSE IF strat.bridgingPolicy = "advance_to_next_ladder_start"
      THEN [newState EXCEPT !.currentLadder = s.currentLadder + 1,
                            !.currentIndex = 0]
      ELSE [newState EXCEPT !.awaitingDecision = TRUE,
                            !.pendingDecisionType = "bridging"]

handleBridging_LastLadderIgnored(s, strat) ==
  LET newState == [s EXCEPT !.topTouches = s.topTouches + 1]
  IN  IF strat.bridgingPolicy = "stop_at_table_limit"
      THEN [newState EXCEPT !.stopped = TRUE, !.stopReason = "table_limit"]
      ELSE [newState EXCEPT !.awaitingDecision = TRUE,
                            !.pendingDecisionType = "bridging"]

handleBridging_NoTopTouch(s, strat) ==
  LET atLastLadder == s.currentLadder = Len(strat.ladders) - 1
  IN  IF strat.bridgingPolicy = "stop_at_table_limit"
      THEN [s EXCEPT !.stopped = TRUE, !.stopReason = "table_limit"]
      ELSE IF atLastLadder
      THEN [s EXCEPT !.stopped = TRUE, !.stopReason = "table_limit"]
      ELSE [s EXCEPT !.awaitingDecision = TRUE,
                     !.pendingDecisionType = "bridging"]

handleBridging_PolicyIgnored(s, strat) ==
  LET atLastLadder == s.currentLadder = Len(strat.ladders) - 1
      newState == [s EXCEPT !.topTouches = s.topTouches + 1]
  IN  IF atLastLadder
      THEN [newState EXCEPT !.stopped = TRUE, !.stopReason = "table_limit"]
      ELSE [newState EXCEPT !.awaitingDecision = TRUE,
                            !.pendingDecisionType = "bridging"]

handleBridging(s, strat) ==
  LET atLastLadder == s.currentLadder = Len(strat.ladders) - 1
      newState == [s EXCEPT !.topTouches = s.topTouches + 1]
  IN  IF strat.bridgingPolicy = "stop_at_table_limit"
      THEN [newState EXCEPT !.stopped = TRUE, !.stopReason = "table_limit"]
      ELSE IF atLastLadder
      THEN [newState EXCEPT !.stopped = TRUE, !.stopReason = "table_limit"]
      ELSE [newState EXCEPT !.awaitingDecision = TRUE,
                            !.pendingDecisionType = "bridging"]

stepIndex_ExitIgnoresTarget(s, strat, won) ==
  LET currentLadder == strat.ladders[s.currentLadder + 1]
      maxIndex == getMaxIndex(currentLadder)
      atTopBeforeStep == s.currentIndex >= maxIndex
      newIndex == IF won THEN s.currentIndex - 2 ELSE s.currentIndex + 1
      needsBridging == ~won /\ atTopBeforeStep
      newState == [s EXCEPT !.currentIndex = Max(0, Min(newIndex, maxIndex))]
  IN  IF needsBridging THEN handleBridging(s, strat)
      ELSE IF newState.inRecovery
      THEN [newState EXCEPT !.inRecovery = FALSE,
                            !.recoveryTargetPnl = 0,
                            !.currentLadder = 0,
                            !.currentIndex = 0]
      ELSE newState

stepIndex_TargetKept(s, strat, won) ==
  LET currentLadder == strat.ladders[s.currentLadder + 1]
      maxIndex == getMaxIndex(currentLadder)
      atTopBeforeStep == s.currentIndex >= maxIndex
      newIndex == IF won THEN s.currentIndex - 2 ELSE s.currentIndex + 1
      needsBridging == ~won /\ atTopBeforeStep
      newState == [s EXCEPT !.currentIndex = Max(0, Min(newIndex, maxIndex))]
  IN  IF needsBridging THEN handleBridging(s, strat)
      ELSE IF newState.inRecovery /\ newState.pnl >= newState.recoveryTargetPnl
      THEN [newState EXCEPT !.inRecovery = FALSE,
                            !.currentLadder = 0,
                            !.currentIndex = 0]
      ELSE newState

stepIndex_RecoveryStrict(s, strat, won) ==
  LET currentLadder == strat.ladders[s.currentLadder + 1]
      maxIndex == getMaxIndex(currentLadder)
      atTopBeforeStep == s.currentIndex >= maxIndex
      newIndex == IF won THEN s.currentIndex - 2 ELSE s.currentIndex + 1
      needsBridging == ~won /\ atTopBeforeStep
      newState == [s EXCEPT !.currentIndex = Max(0, Min(newIndex, maxIndex))]
  IN  IF needsBridging THEN handleBridging(s, strat)
      ELSE IF newState.inRecovery /\ newState.pnl > newState.recoveryTargetPnl
      THEN [newState EXCEPT !.inRecovery = FALSE,
                            !.recoveryTargetPnl = 0,
                            !.currentLadder = 0,
                            !.currentIndex = 0]
      ELSE newState

stepIndex_WinOneDown(s, strat, won) ==
  LET currentLadder == strat.ladders[s.currentLadder + 1]
      maxIndex == getMaxIndex(currentLadder)
      atTopBeforeStep == s.currentIndex >= maxIndex
      newIndex == IF won THEN s.currentIndex - 1 ELSE s.currentIndex + 1
      needsBridging == ~won /\ atTopBeforeStep
      newState == [s EXCEPT !.currentIndex = Max(0, Min(newIndex, maxIndex))]
  IN  IF needsBridging THEN handleBridging(s, strat)
      ELSE IF newState.inRecovery /\ newState.pnl >= newState.recoveryTargetPnl
      THEN [newState EXCEPT !.inRecovery = FALSE,
                            !.recoveryTargetPnl = 0,
                            !.currentLadder = 0,
                            !.currentIndex = 0]
      ELSE newState

stepIndex(s, strat, won) ==
  LET currentLadder == strat.ladders[s.currentLadder + 1]
      maxIndex == getMaxIndex(currentLadder)
      atTopBeforeStep == s.currentIndex >= maxIndex
      newIndex == IF won THEN s.currentIndex - 2 ELSE s.currentIndex + 1
      needsBridging == ~won /\ atTopBeforeStep
      newState == [s EXCEPT !.currentIndex = Max(0, Min(newIndex, maxIndex))]
  IN  IF needsBridging THEN handleBridging(s, strat)
      ELSE IF newState.inRecovery /\ newState.pnl >= newState.recoveryTargetPnl
      THEN [newState EXCEPT !.inRecovery = FALSE,
                            !.recoveryTargetPnl = 0,
                            !.currentLadder = 0,
                            !.currentIndex = 0]
      ELSE newState

\* the guard that opens processBet
stoppedOrAwaiting_StoppedOnly(s) == s.stopped

stoppedOrAwaiting_AwaitingOnly(s) == s.awaitingDecision

stoppedOrAwaiting(s) == s.stopped \/ s.awaitingDecision

\* the settlement of one bet at the given stake: the counters, then the
\* drawdown tracking, whose two right-hand sides both read the state before
\* that second update
settleBet_DrawdownNotKept(s, stake, won) ==
  LET roundPnl == IF won THEN stake ELSE 0 - stake
      settled == [s EXCEPT !.pnl = s.pnl + roundPnl,
                           !.rounds = s.rounds + 1,
                           !.totalWagered = s.totalWagered + stake,
                           !.maxStake = Max(s.maxStake, stake),
                           !.ladderTouches[s.currentLadder] =
                               s.ladderTouches[s.currentLadder] + 1]
  IN  [settled EXCEPT !.peakPnl = Max(settled.peakPnl, settled.pnl),
                      !.maxDrawdown = settled.peakPnl - settled.pnl]

settleBet(s, stake, won) ==
  LET roundPnl == IF won THEN stake ELSE 0 - stake
      settled == [s EXCEPT !.pnl = s.pnl + roundPnl,
                           !.rounds = s.rounds + 1,
                           !.totalWagered = s.totalWagered + stake,
                           !.maxStake = Max(s.maxStake, stake),
                           !.ladderTouches[s.currentLadder] =
                               s.ladderTouches[s.currentLadder] + 1]
  IN  [settled EXCEPT !.peakPnl = Max(settled.peakPnl, settled.pnl),
                      !.maxDrawdown = Max(settled.maxDrawdown,
                                          settled.peakPnl - settled.pnl)]

\* the session stop conditions on the settled state: the stop reason of the
\* first one that holds, "null" when none does
stopCondition_ProfitStrict(newState, cfg) ==
  IF newState.pnl > cfg.profitTarget THEN "profit_target"
  ELSE IF 0 - newState.pnl >= cfg.stopLossAbs THEN "stop_loss"
  ELSE IF newState.rounds >= cfg.maxRounds THEN "max_rounds"
  ELSE "null"

stopCondition_RoundsFirst(newState, cfg) ==
  IF newState.rounds >= cfg.maxRounds THEN "max_rounds"
  ELSE IF newState.pnl >= cfg.profitTarget THEN "profit_target"
  ELSE IF 0 - newState.pnl >= cfg.stopLossAbs THEN "stop_loss"
  ELSE "null"

stopCondition(newState, cfg) ==
  IF newState.pnl >= cfg.profitTarget THEN "profit_target"
  ELSE IF 0 - newState.pnl >= cfg.stopLossAbs THEN "stop_loss"
  ELSE IF newState.rounds >= cfg.maxRounds THEN "max_rounds"
  ELSE "null"

processBet_StepBeforeStop(s, cfg, strat, won, decisionMode) ==
  IF stoppedOrAwaiting(s) THEN s
  ELSE
  LET stake == getCurrentStake(s, strat)
      newState == settleBet(s, stake, won)
      stepped == stepIndex(newState, strat, won)
  IN  IF ~canAffordStake(s, cfg, strat)
      THEN [s EXCEPT !.stopped = TRUE, !.stopReason = "bankroll_exhausted"]
      ELSE IF exceedsTableMax(s, cfg, strat)
      THEN [s EXCEPT !.stopped = TRUE, !.stopReason = "table_limit"]
      ELSE IF stopCondition(newState, cfg) # "null"
      THEN [stepped EXCEPT !.stopped = TRUE,
                           !.stopReason = stopCondition(newState, cfg)]
      ELSE IF decisionMode = "every_bet" /\ ~stepped.stopped
              /\ ~stepped.awaitingDecision
      THEN [stepped EXCEPT !.awaitingDecision = TRUE,
                           !.pendingDecisionType = "every_bet"]
      ELSE stepped

processBet_EveryBetOverwrites(s, cfg, strat, won, decisionMode) ==
  IF stoppedOrAwaiting(s) THEN s
  ELSE
  LET stake == getCurrentStake(s, strat)
      newState == settleBet(s, stake, won)
      stepped == stepIndex(newState, strat, won)
  IN  IF ~canAffordStake(s, cfg, strat)
      THEN [s EXCEPT !.stopped = TRUE, !.stopReason = "bankroll_exhausted"]
      ELSE IF exceedsTableMax(s, cfg, strat)
      THEN [s EXCEPT !.stopped = TRUE, !.stopReason = "table_limit"]
      ELSE IF stopCondition(newState, cfg) # "null"
      THEN [newState EXCEPT !.stopped = TRUE,
                            !.stopReason = stopCondition(newState, cfg)]
      ELSE IF decisionMode = "every_bet" /\ ~stepped.stopped
      THEN [stepped EXCEPT !.awaitingDecision = TRUE,
                           !.pendingDecisionType = "every_bet"]
      ELSE stepped

processBet(s, cfg, strat, won, decisionMode) ==
  IF stoppedOrAwaiting(s) THEN s
  ELSE
  LET stake == getCurrentStake(s, strat)
      newState == settleBet(s, stake, won)
      stepped == stepIndex(newState, strat, won)
  IN  IF ~canAffordStake(s, cfg, strat)
      THEN [s EXCEPT !.stopped = TRUE, !.stopReason = "bankroll_exhausted"]
      ELSE IF exceedsTableMax(s, cfg, strat)
      THEN [s EXCEPT !.stopped = TRUE, !.stopReason = "table_limit"]
      ELSE IF stopCondition(newState, cfg) # "null"
      THEN [newState EXCEPT !.stopped = TRUE,
                            !.stopReason = stopCondition(newState, cfg)]
      ELSE IF decisionMode = "every_bet" /\ ~stepped.stopped
              /\ ~stepped.awaitingDecision
      THEN [stepped EXCEPT !.awaitingDecision = TRUE,
                           !.pendingDecisionType = "every_bet"]
      ELSE stepped

\* the rung a carried-over session resumes at on the next ladder
clampedOffset_Unclamped(strat, nextLadder) == strat.crossoverOffset

clampedOffset_OffByOne(strat, nextLadder) ==
  Min(strat.crossoverOffset, Len(nextLadder.stakes))

clampedOffset(strat, nextLadder) ==
  Min(strat.crossoverOffset, getMaxIndex(nextLadder))

executeCarryOver_ProfitTargetZero(s, strat) ==
  LET recoveryAmount == (Abs(s.pnl) * strat.pctNum) \div PctDen
      newState ==
        IF ~s.inRecovery
        THEN [s EXCEPT !.inRecovery = TRUE,
                       !.recoveryTargetPnl =
                           IF s.pnl < 0 THEN s.pnl + recoveryAmount ELSE 0]
        ELSE s
      nextLadder == strat.ladders[newState.currentLadder + 2]
  IN  [newState EXCEPT !.currentLadder = newState.currentLadder + 1,
                       !.currentIndex = clampedOffset(strat, nextLadder),
                       !.awaitingDecision = FALSE,
                       !.pendingDecisionType = "null"]

executeCarryOver_ProfitNoRecovery(s, strat) ==
  LET recoveryAmount == (Abs(s.pnl) * strat.pctNum) \div PctDen
      newState ==
        IF ~s.inRecovery /\ s.pnl < 0
        THEN [s EXCEPT !.inRecovery = TRUE,
                       !.recoveryTargetPnl = s.pnl + recoveryAmount]
        ELSE s
      nextLadder == strat.ladders[newState.currentLadder + 2]
  IN  [newState EXCEPT !.currentLadder = newState.currentLadder + 1,
                       !.currentIndex = clampedOffset(strat, nextLadder),
                       !.awaitingDecision = FALSE,
                       !.pendingDecisionType = "null"]

executeCarryOver_TargetIsAmount(s, strat) ==
  LET recoveryAmount == (Abs(s.pnl) * strat.pctNum) \div PctDen
      newState ==
        IF ~s.inRecovery
        THEN [s EXCEPT !.inRecovery = TRUE,
                       !.recoveryTargetPnl =
                           IF s.pnl < 0 THEN recoveryAmount ELSE s.pnl]
        ELSE s
      nextLadder == strat.ladders[newState.currentLadder + 2]
  IN  [newState EXCEPT !.currentLadder = newState.currentLadder + 1,
                       !.currentIndex = clampedOffset(strat, nextLadder),
                       !.awaitingDecision = FALSE,
                       !.pendingDecisionType = "null"]

executeCarryOver_AlwaysRecompute(s, strat) ==
  LET recoveryAmount == (Abs(s.pnl) * strat.pctNum) \div PctDen
      newState ==
        IF TRUE
        THEN [s EXCEPT !.inRecovery = TRUE,
                       !.recoveryTargetPnl =
                           IF s.pnl < 0 THEN s.pnl + recoveryAmount ELSE s.pnl]
        ELSE s
      nextLadder == strat.ladders[newState.currentLadder + 2]
  IN  [newState EXCEPT !.currentLadder = newState.currentLadder + 1,
                       !.currentIndex = clampedOffset(strat, nextLadder),
                       !.awaitingDecision = FALSE,
                       !.pendingDecisionType = "null"]

executeCarryOver_SignedAmount(s, strat) ==
  LET recoveryAmount == (s.pnl * strat.pctNum) \div PctDen
      newState ==
        IF ~s.inRecovery
        THEN [s EXCEPT !.inRecovery = TRUE,
                       !.recoveryTargetPnl =
                           IF s.pnl < 0 THEN s.pnl + recoveryAmount ELSE s.pnl]
        ELSE s
      nextLadder == strat.ladders[newState.currentLadder + 2]
  IN  [newState EXCEPT !.currentLadder = newState.currentLadder + 1,
                       !.currentIndex = clampedOffset(strat, nextLadder),
                       !.awaitingDecision = FALSE,
                       !.pendingDecisionType = "null"]

executeCarryOver(s, strat) ==
  LET recoveryAmount == (Abs(s.pnl) * strat.pctNum) \div PctDen
      newState ==
        IF ~s.inRecovery
        THEN [s EXCEPT !.inRecovery = TRUE,
                       !.recoveryTargetPnl =
                           IF s.pnl < 0 THEN s.pnl + recoveryAmount ELSE s.pnl]
        ELSE s
      nextLadder == strat.ladders[newState.currentLadder + 2]
  IN  [newState EXCEPT !.currentLadder = newState.currentLadder + 1,
                       !.currentIndex = clampedOffset(strat, nextLadder),
                       !.awaitingDecision = FALSE,
                       !.pendingDecisionType = "null"]

\* the decision on a pending every_bet confirmation
everyBetDecision_ContinueKeepsPending(s, decision) ==
  IF decision = "stop_session"
  THEN [s EXCEPT !.stopped = TRUE,
                 !.stopReason = "user_stopped",
                 !.awaitingDecision = FALSE,
                 !.pendingDecisionType = "null"]
  ELSE s

everyBetDecision_StillAwaiting(s, decision) ==
  IF decision = "stop_session"
  THEN [s EXCEPT !.stopped = TRUE,
                 !.stopReason = "user_stopped"]
  ELSE [s EXCEPT !.awaitingDecision = FALSE,
                 !.pendingDecisionType = "null"]

everyBetDecision_WriteOffResets(s, decision) ==
  IF decision = "stop_session"
  THEN [s EXCEPT !.stopped = TRUE,
                 !.stopReason = "user_stopped",
                 !.awaitingDecision = FALSE,
                 !.pendingDecisionType = "null"]
  ELSE IF decision = "write_off"
  THEN [s EXCEPT !.currentLadder = 0,
                 !.currentIndex = 0,
                 !.awaitingDecision = FALSE,
                 !.pendingDecisionType = "null"]
  ELSE [s EXCEPT !.awaitingDecision = FALSE,
                 !.pendingDecisionType = "null"]

everyBetDecision(s, decision) ==
  IF decision = "stop_session"
  THEN [s EXCEPT !.stopped = TRUE,
                 !.stopReason = "user_stopped",
                 !.awaitingDecision = FALSE,
                 !.pendingDecisionType = "null"]
  ELSE [s EXCEPT !.awaitingDecision = FALSE,
                 !.pendingDecisionType = "null"]

bridgingDecision_WriteOffKeepsRecovery(s, strat, decision) ==
  CASE decision = "stop_session" ->
         [s EXCEPT !.stopped = TRUE,
                   !.stopReason = "user_stopped",
                   !.awaitingDecision = FALSE,
                   !.pendingDecisionType = "null"]
    [] decision = "write_off" ->
         [s EXCEPT !.currentLadder = 0,
                   !.currentIndex = 0,
                   !.awaitingDecision = FALSE,
                   !.pendingDecisionType = "null"]
    [] decision = "carry_over" -> executeCarryOver(s, strat)
    [] OTHER -> s

bridgingDecision_StopKeepsPending(s, strat, decision) ==
  CASE decision = "stop_session" ->
         [s EXCEPT !.stopped = TRUE,
                   !.stopReason = "user_stopped",
                   !.awaitingDecision = FALSE]
    [] decision = "write_off" ->
         [s EXCEPT !.currentLadder = 0,
                   !.currentIndex = 0,
                   !.inRecovery = FALSE,
                   !.recoveryTargetPnl = 0,
                   !.awaitingDecision = FALSE,
                   !.pendingDecisionType = "null"]
    [] decision = "carry_over" -> executeCarryOver(s, strat)
    [] OTHER -> s

bridgingDecision_UnknownContinues(s, strat, decision) ==
  CASE decision = "stop_session" ->
         [s EXCEPT !.stopped = TRUE,
                   !.stopReason = "user_stopped",
                   !.awaitingDecision = FALSE,
                   !.pendingDecisionType = "null"]
    [] decision = "write_off" ->
         [s EXCEPT !.currentLadder = 0,
                   !.currentIndex = 0,
                   !.inRecovery = FALSE,
                   !.recoveryTargetPnl = 0,
                   !.awaitingDecision = FALSE,
                   !.pendingDecisionType = "null"]
    [] decision = "carry_over" -> executeCarryOver(s, strat)
    [] OTHER -> [s EXCEPT !.awaitingDecision = FALSE,
                          !.pendingDecisionType = "null"]

\* the decision on a pending bridging decision
bridgingDecision(s, strat, decision) ==
  CASE decision = "stop_session" ->
         [s EXCEPT !.stopped = TRUE,
                   !.stopReason = "user_stopped",
                   !.awaitingDecision = FALSE,
                   !.pendingDecisionType = "null"]
    [] decision = "write_off" ->
         [s EXCEPT !.currentLadder = 0,
                   !.currentIndex = 0,
                   !.inRecovery = FALSE,
                   !.recoveryTargetPnl = 0,
                   !.awaitingDecision = FALSE,
                   !.pendingDecisionType = "null"]
    [] decision = "carry_over" -> executeCarryOver(s, strat)
    [] OTHER -> s

processBridgingDecision_StopAlways(s, strat, decision) ==
  IF ~s.awaitingDecision /\ decision # "stop_session" THEN s
  ELSE IF s.pendingDecisionType = "every_bet"
  THEN everyBetDecision(s, decision)
  ELSE bridgingDecision(s, strat, decision)

processBridgingDecision(s, strat, decision) ==
  IF ~s.awaitingDecision THEN s
  ELSE IF s.pendingDecisionType = "every_bet"
  THEN everyBetDecision(s, decision)
  ELSE bridgingDecision(s, strat, decision)

\* the session ended on its profit target
isWinningSession(s) == s.stopped /\ s.stopReason = "profit_target"

\* ---------------------------------------------------------------- presets.ts
\* a JavaScript value that is absent: undefined, or null in the store
Undefined == [undefined |-> TRUE]
Null == [null |-> TRUE]

\* the catalogue; recoveryTargetPct is kept as the exact fraction <<num, den>>
PRESETS ==
  [default |->
     [name |-> "default", displayName |-> "Default",
      bridgingPolicy |-> "carry_over_index_delta",
      recoveryTargetPct |-> <<1, 2>>, crossoverOffset |-> 0],
   aggressive |->
     [name |-> "aggressive", displayName |-> "Aggressive",
      bridgingPolicy |-> "carry_over_index_delta",
      recoveryTargetPct |-> <<3, 4>>, crossoverOffset |-> 2],
   conservative |->
     [name |-> "conservative", displayName |-> "Conservative",
      bridgingPolicy |-> "carry_over_index_delta",
      recoveryTargetPct |-> <<1, 4>>, crossoverOffset |-> 0],
   moderate |->
     [name |-> "moderate", displayName |-> "Moderate",
      bridgingPolicy |-> "carry_over_index_delta",
      recoveryTargetPct |-> <<1, 2>>, crossoverOffset |-> 1],
   full_recovery |->
     [name |-> "full_recovery", displayName |-> "Full Recovery",
      bridgingPolicy |-> "carry_over_index_delta",
      recoveryTargetPct |-> <<1, 1>>, crossoverOffset |-> 0],
   quick_reset |->
     [name |-> "quick_reset", displayName |-> "Quick Reset",
      bridgingPolicy |-> "carry_over_index_delta",
      recoveryTargetPct |-> <<1, 10>>, crossoverOffset |-> 0],
   high_offset |->
     [name |-> "high_offset", displayName |-> "High Offset",
      bridgingPolicy |-> "carry_over_index_delta",
      recoveryTargetPct |-> <<1, 2>>, crossoverOffset |-> 3]]

\* PRESETS is an object literal: besides its own keys, a property read finds
\* what every object inherits from Object.prototype
ObjectPrototypeKeys == {"constructor", "toString"}

\* the property read PRESETS[name]
presetsProperty(name) ==
  IF name \in DOMAIN PRESETS THEN PRESETS[name]
  ELSE IF name \in ObjectPrototypeKeys THEN [inherited |-> name]
  ELSE Undefined

\* the property read value.field on what PRESETS[name] gave
propertyOf(value, field) ==
  IF field \in DOMAIN value THEN value[field] ELSE Undefined

getPreset_DefaultOnUnknown(name) ==
  IF presetsProperty(name) = Undefined THEN PRESETS["default"]
  ELSE presetsProperty(name)

getPreset(name) == presetsProperty(name)

DEFAULT_LADDERS ==
  <<createLadder("L1", <<5, 10, 15, 25, 40, 65, 105, 170, 275>>),
    createLadder("L2", <<50, 100, 150, 250, 400, 650, 1050, 1750>>),
    createLadder("L3", <<500, 1000, 1500, 2500, 4000, 6500, 10500, 17000,
                         27500, 44500>>)>>

\* the result is either the strategy returned or the Error thrown
createStrategyFromPreset_DefaultOnUnknown(presetName, ladders) ==
  LET preset == IF presetsProperty(presetName) = Undefined
                THEN PRESETS["default"]
                ELSE presetsProperty(presetName)
  IN  [ladders |-> ladders,
       bridgingPolicy |-> propertyOf(preset, "bridgingPolicy"),
       recoveryTargetPct |-> propertyOf(preset, "recoveryTargetPct"),
       crossoverOffset |-> propertyOf(preset, "crossoverOffset")]

createStrategyFromPreset(presetName, ladders) ==
  LET preset == presetsProperty(presetName)
  IN  IF preset = Undefined
      THEN [thrown |-> "Unknown preset: " \o presetName]
      ELSE [ladders |-> ladders,
            bridgingPolicy |-> propertyOf(preset, "bridgingPolicy"),
            recoveryTargetPct |-> propertyOf(preset, "recoveryTargetPct"),
            crossoverOffset |-> propertyOf(preset, "crossoverOffset")]

\* names and ladders the lookups are tried with: the catalogue, three names
\* outside it, and the two inherited ones
PresetNames ==
  DOMAIN PRESETS \cup {"unknown", "", "nonexistent"} \cup ObjectPrototypeKeys
PresetLadders == LadderSets \cup {DEFAULT_LADDERS}

\* lookup holds the arguments and the result of the latest preset lookup
NoLookup == [op |-> "none", presetName |-> "default",
             ladders |-> DEFAULT_LADDERS, result |-> Undefined]

\* ---------------------------------------------------------------- store
\* Date.now() is read as the one value Timestamp
Timestamp == [timestamp |-> TRUE]

\* the store's fields other than config, strategy and state
EmptyStore == [decisionMode |-> "at_bridging_only", betHistory |-> <<>>,
               startTime |-> Null]

\* ---------------------------------------------------------------- behaviour
\* prev and call record the argument state and the inputs of the latest call
\* (the store records the call only)
NoCall == [op |-> "createInitialState", won |-> FALSE,
           decisionMode |-> "at_bridging_only", decision |-> "unrecognized"]

Init ==
  /\ strategy \in Strategies
  /\ config \in SessionConfigs
  /\ state = createInitialState(strategy, config.startingLadder)
  /\ prev = state
  /\ call = NoCall
  /\ store = EmptyStore
  /\ lookup = NoLookup

ProcessBet ==
  \E won \in BOOLEAN, decisionMode \in DecisionModes :
    /\ state' = processBet(state, config, strategy, won, decisionMode)
    /\ prev' = state
    /\ call' = [op |-> "processBet", won |-> won,
                decisionMode |-> decisionMode, decision |-> "unrecognized"]
    /\ UNCHANGED <<config, strategy, store, lookup>>

ProcessBridgingDecision ==
  \E decision \in Decisions :
    /\ state' = processBridgingDecision(state, strategy, decision)
    /\ prev' = state
    /\ call' = [op |-> "processBridgingDecision", won |-> FALSE,
                decisionMode |-> "at_bridging_only", decision |-> decision]
    /\ UNCHANGED <<config, strategy, store, lookup>>

Next == ProcessBet \/ ProcessBridgingDecision

Spec == Init /\ [][Next]_vars

TypeOK ==
  /\ state.rounds \in 0..config.maxRounds
  /\ state.stopReason \in {"null", "profit_target", "stop_loss", "max_rounds",
                           "table_limit", "bankroll_exhausted", "user_stopped"}
  /\ state.pendingDecisionType \in {"null", "bridging", "every_bet"}

\* ---------------------------------------------------------------- a caller that keeps playing
\* the caller submits a bet outcome whenever no decision is pending and
\* answers a pending decision with one of the three recognized decisions; it
\* never stops calling, which is the weak fairness of LiveNext
SubmitBet ==
  /\ ~state.awaitingDecision
  /\ \E won \in BOOLEAN, decisionMode \in DecisionModes :
       /\ state' = processBet(state, config, strategy, won, decisionMode)
       /\ prev' = state
       /\ call' = [op |-> "processBet", won |-> won,
                   decisionMode |-> decisionMode, decision |-> "unrecognized"]
       /\ UNCHANGED <<config, strategy, store, lookup>>

AnswerDecision ==
  /\ state.awaitingDecision
  /\ \E decision \in Decisions \ {"unrecognized"} :
       /\ state' = processBridgingDecision(state, strategy, decision)
       /\ prev' = state
       /\ call' = [op |-> "processBridgingDecision", won |-> FALSE,
                   decisionMode |-> "at_bridging_only", decision |-> decision]
       /\ UNCHANGED <<config, strategy, store, lookup>>

LiveNext == SubmitBet \/ AnswerDecision

\* the sessions the caller plays: every ladder set and bridging policy, from
\* ladder 0, with and without a tableMax
LiveConfigs ==
  [bankroll : {3 * PctDen, 20 * PctDen},
   profitTarget : {2 * PctDen, 20 * PctDen},
   stopLossAbs : {20 * PctDen}, maxRounds : {MaxRounds},
   tableMax : {0, 2 * PctDen}, startingLadder : {0}]
LiveStrategies ==
  [ladders : LadderSets, bridgingPolicy : BridgingPolicies,
   pctNum : {1}, crossoverOffset : {0}]

LiveInit ==
  /\ strategy \in LiveStrategies
  /\ config \in LiveConfigs
  /\ state = createInitialState(strategy, config.startingLadder)
  /\ prev = state
  /\ call = NoCall
  /\ store = EmptyStore
  /\ lookup = NoLookup

LiveSpec == LiveInit /\ [][LiveNext]_vars /\ WF_vars(LiveNext)

\* ---------------------------------------------------------------- preset lookups
\* the two lookup operations, applied to a name and ladders drawn at the start
PresetInit ==
  /\ lookup \in [op : {"none"}, presetName : PresetNames,
                 ladders : PresetLadders, result : {Undefined}]
  /\ strategy = Null /\ config = Null /\ state = Null /\ prev = Null
  /\ call = NoCall
  /\ store = EmptyStore

GetPreset ==
  /\ lookup' = [lookup EXCEPT !.op = "getPreset",
                              !.result = getPreset(lookup.presetName)]
  /\ UNCHANGED <<config, strategy, state, prev, call, store>>

CreateStrategyFromPreset ==
  /\ lookup' = [lookup EXCEPT
                  !.op = "createStrategyFromPreset",
                  !.result = createStrategyFromPreset(lookup.presetName,
                                                      lookup.ladders)]
  /\ UNCHANGED <<config, strategy, state, prev, call, store>>

PresetNext == GetPreset \/ CreateStrategyFromPreset

PresetSpec == PresetInit /\ [][PresetNext]_vars

\* ---------------------------------------------------------------- session store
\* largest number of records RecordBet lets betHistory grow to
MaxHistory == 2

\* configs and strategies a session is started with (startingLadder 0 also
\* stands for a config without the field)
StoreConfigs ==
  [bankroll : {3 * PctDen, 20 * PctDen}, profitTarget : {20 * PctDen},
   stopLossAbs : {20 * PctDen}, maxRounds : {MaxRounds},
   tableMax : {0, 2 * PctDen}, startingLadder : {0, 1}]
StoreStrategies ==
  [ladders : LadderSets, bridgingPolicy : BridgingPolicies,
   pctNum : {1}, crossoverOffset : {0}]

\* startSession: createInitialState is called without a starting ladder, so
\* its parameter takes the default 0
startSession(cfg, strat, st) ==
  [config |-> cfg, strategy |-> strat,
   state |-> createInitialState(strat, 0),
   store |-> [st EXCEPT !.betHistory = <<>>, !.startTime = Timestamp]]

\* recordBet: the new state and the new betHistory
recordBet(s, cfg, strat, st, won) ==
  IF s = Null \/ cfg = Null \/ strat = Null
  THEN [state |-> s, betHistory |-> st.betHistory]
  ELSE IF s.stopped
  THEN [state |-> s, betHistory |-> st.betHistory]
  ELSE IF ~canAffordStake(s, cfg, strat)
  THEN [state |-> [s EXCEPT !.stopped = TRUE,
                            !.stopReason = "bankroll_exhausted"],
        betHistory |-> st.betHistory]
  ELSE LET stake == getCurrentStake(s, strat)
           newState == processBet(s, cfg, strat, won, st.decisionMode)
           newRecord == [round |-> s.rounds + 1,
                         timestamp |-> Timestamp,
                         ladder |-> s.currentLadder,
                         index |-> s.currentIndex,
                         stake |-> stake,
                         won |-> won,
                         pnlAfter |-> newState.pnl]
       IN  [state |-> newState,
            betHistory |-> Append(st.betHistory, newRecord)]

makeDecision(s, strat, decision) ==
  IF s = Null \/ strat = Null THEN s
  ELSE IF ~s.awaitingDecision THEN s
  ELSE processBridgingDecision(s, strat, decision)

StoreNoCall == [op |-> "none", won |-> FALSE,
                decisionMode |-> "at_bridging_only",
                decision |-> "unrecognized"]

StoreInit ==
  /\ config = Null /\ strategy = Null /\ state = Null
  /\ store = EmptyStore
  /\ prev = Null
  /\ call = StoreNoCall
  /\ lookup = NoLookup

StartSession ==
  \E cfg \in StoreConfigs, strat \in StoreStrategies :
    LET r == startSession(cfg, strat, store)
    IN  /\ config' = r.config
        /\ strategy' = r.strategy
        /\ state' = r.state
        /\ store' = r.store
        /\ call' = [StoreNoCall EXCEPT !.op = "startSession"]
        /\ UNCHANGED <<prev, lookup>>

RecordBet ==
  \E won \in BOOLEAN :
    LET r == recordBet(state, config, strategy, store, won)
    IN  /\ Len(store.betHistory) < MaxHistory
        /\ state' = r.state
        /\ store' = [store EXCEPT !.betHistory = r.betHistory]
        /\ call' = [StoreNoCall EXCEPT !.op = "recordBet", !.won = won,
                                       !.decisionMode = store.decisionMode]
        /\ UNCHANGED <<config, strategy, prev, lookup>>

MakeDecision ==
  \E decision \in Decisions :
    /\ state' = makeDecision(state, strategy, decision)
    /\ call' = [StoreNoCall EXCEPT !.op = "makeDecision",
                                   !.decision = decision]
    /\ UNCHANGED <<config, strategy, store, prev, lookup>>

ResetSession ==
  /\ config' = Null /\ strategy' = Null /\ state' = Null
  /\ store' = [store EXCEPT !.betHistory = <<>>, !.startTime = Null]
  /\ call' = [StoreNoCall EXCEPT !.op = "resetSession"]
  /\ UNCHANGED <<prev, lookup>>

SetDecisionMode ==
  \E mode \in DecisionModes :
    /\ store' = [store EXCEPT !.decisionMode = mode]
    /\ call' = [StoreNoCall EXCEPT !.op = "setDecisionMode",
                                   !.decisionMode = mode]
    /\ UNCHANGED <<config, strategy, state, prev, lookup>>

StoreNext ==
  \/ StartSession
  \/ RecordBet
  \/ MakeDecision
  \/ ResetSession
  \/ SetDecisionMode

StoreSpec == StoreInit /\ [][StoreNext]_vars

\* ---------------------------------------------------------------- properties
\* the latest call was processBet and it settled a bet
SettledByLastCall ==
  call.op = "processBet" /\ state.rounds = prev.rounds + 1

\* C1: processBet returns a stopped or awaiting state unchanged, for either
\* outcome and either decision mode: no bet is settled while a decision is
\* pending.
C1_ProcessBetIdentityWhenStoppedOrAwaiting ==
  /\ \A won \in BOOLEAN, decisionMode \in DecisionModes :
       (state.stopped \/ state.awaitingDecision)
         => processBet(state, config, strategy, won, decisionMode) = state
  /\ (call.op = "processBet" /\ (prev.stopped \/ prev.awaitingDecision))
       => state = prev

C1_Witness ==
  /\ call.op = "processBet"
  /\ prev.awaitingDecision
  /\ prev.pendingDecisionType = "bridging"
  /\ state = prev

\* C2: processBridgingDecision returns a state that is not awaiting a decision
\* unchanged, for every decision value; stop_session on an active session
\* does not stop it.
C2_DecisionIdentityWhenNotAwaiting ==
  /\ \A decision \in Decisions :
       ~state.awaitingDecision
         => processBridgingDecision(state, strategy, decision) = state
  /\ (call.op = "processBridgingDecision" /\ ~prev.awaitingDecision)
       => state = prev

C2_Witness ==
  /\ call.op = "processBridgingDecision"
  /\ call.decision = "stop_session"
  /\ ~prev.awaitingDecision
  /\ ~prev.stopped
  /\ prev.rounds > 0
  /\ ~state.stopped

\* C3: stopped is absorbing: once stopped, every later call of processBet or
\* processBridgingDecision leaves the whole state as it is.
C3_StoppedIsAbsorbing == [][state.stopped => state' = state]_vars

C3_Witness ==
  /\ call.op = "processBet"
  /\ prev.stopped
  /\ prev.stopReason = "max_rounds"
  /\ state = prev

\* C4: in every reachable state currentLadder is an index of strategy.ladders
\* and currentIndex lies in [0, maxIndex of that ladder].
C4_PositionInRange ==
  /\ state.currentLadder \in 0..(Len(strategy.ladders) - 1)
  /\ state.currentIndex \in
       0..getMaxIndex(strategy.ladders[state.currentLadder + 1])

C4_Witness ==
  /\ call.op = "processBridgingDecision"
  /\ call.decision = "carry_over"
  /\ prev.pendingDecisionType = "bridging"
  /\ state.currentLadder = prev.currentLadder + 1
  /\ strategy.crossoverOffset >
       getMaxIndex(strategy.ladders[state.currentLadder + 1])

\* C5: awaitingDecision and stopped are never both true.
C5_AwaitingAndStoppedExclusive ==
  ~(state.awaitingDecision /\ state.stopped)

C5_Witness ==
  /\ call.op = "processBridgingDecision"
  /\ prev.awaitingDecision
  /\ prev.pendingDecisionType = "every_bet"
  /\ state.stopped

\* C6: after a bet is settled the stop conditions are evaluated on the new pnl
\* and rounds in the order profit_target, stop_loss, max_rounds, each one
\* inclusive, and the first that holds gives the stop reason.
C6_StopConditionOrder ==
  \A won \in BOOLEAN, decisionMode \in DecisionModes :
    LET r == processBet(state, config, strategy, won, decisionMode)
    IN  (~state.stopped /\ ~state.awaitingDecision
           /\ r.rounds = state.rounds + 1)
          => /\ r.pnl >= config.profitTarget
                  => (r.stopped /\ r.stopReason = "profit_target")
             /\ (r.pnl < config.profitTarget
                   /\ 0 - r.pnl >= config.stopLossAbs)
                  => (r.stopped /\ r.stopReason = "stop_loss")
             /\ (r.pnl < config.profitTarget
                   /\ 0 - r.pnl < config.stopLossAbs
                   /\ r.rounds >= config.maxRounds)
                  => (r.stopped /\ r.stopReason = "max_rounds")

C6_Witness ==
  /\ SettledByLastCall
  /\ state.pnl = config.profitTarget
  /\ state.rounds >= config.maxRounds
  /\ state.rounds > 1
  /\ state.stopReason = "profit_target"

\* C7 as stated: an unaffordable stake stops with bankroll_exhausted and no
\* other change, and a stake equal to bankroll + pnl is settled.
C7_AsStated ==
  \A won \in BOOLEAN, decisionMode \in DecisionModes :
    LET stake == getStake(strategy.ladders[state.currentLadder + 1],
                          state.currentIndex)
        r == processBet(state, config, strategy, won, decisionMode)
    IN  (~state.stopped /\ ~state.awaitingDecision)
          => /\ config.bankroll + state.pnl < stake
                  => r = [state EXCEPT !.stopped = TRUE,
                                       !.stopReason = "bankroll_exhausted"]
             /\ config.bankroll + state.pnl = stake
                  => (r.rounds = state.rounds + 1
                      /\ r.pnl = state.pnl + (IF won THEN stake ELSE 0 - stake))

\* C7: an unaffordable stake stops with bankroll_exhausted and no other
\* change; a stake equal to bankroll + pnl passes the affordability check and
\* is settled unless it exceeds a configured tableMax.
C7_BankrollExhausted ==
  \A won \in BOOLEAN, decisionMode \in DecisionModes :
    LET stake == getStake(strategy.ladders[state.currentLadder + 1],
                          state.currentIndex)
        r == processBet(state, config, strategy, won, decisionMode)
    IN  (~state.stopped /\ ~state.awaitingDecision)
          => /\ config.bankroll + state.pnl < stake
                  => r = [state EXCEPT !.stopped = TRUE,
                                       !.stopReason = "bankroll_exhausted"]
             /\ config.bankroll + state.pnl = stake
                  => /\ r.stopReason # "bankroll_exhausted"
                     /\ ~(config.tableMax # 0 /\ stake > config.tableMax)
                          => (r.rounds = state.rounds + 1
                              /\ r.pnl = state.pnl
                                   + (IF won THEN stake ELSE 0 - stake))

C7_Witness ==
  /\ call.op = "processBet"
  /\ ~prev.stopped /\ ~prev.awaitingDecision
  /\ prev.rounds > 0
  /\ config.bankroll + prev.pnl <
       getStake(strategy.ladders[prev.currentLadder + 1], prev.currentIndex)
  /\ state.stopReason = "bankroll_exhausted"
  /\ state.rounds = prev.rounds

\* C8: an affordable stake strictly above a configured tableMax stops with
\* table_limit and no other change; a stake equal to tableMax is settled; a
\* stake both unaffordable and above tableMax stops with bankroll_exhausted.
C8_TableLimit ==
  \A won \in BOOLEAN, decisionMode \in DecisionModes :
    LET stake == getStake(strategy.ladders[state.currentLadder + 1],
                          state.currentIndex)
        affordable == config.bankroll + state.pnl >= stake
        r == processBet(state, config, strategy, won, decisionMode)
    IN  (~state.stopped /\ ~state.awaitingDecision /\ config.tableMax # 0)
          => /\ (affordable /\ stake > config.tableMax)
                  => r = [state EXCEPT !.stopped = TRUE,
                                       !.stopReason = "table_limit"]
             /\ (affordable /\ stake = config.tableMax)
                  => (r.rounds = state.rounds + 1
                      /\ r.pnl = state.pnl + (IF won THEN stake ELSE 0 - stake))
             /\ (~affordable /\ stake > config.tableMax)
                  => (r.stopped /\ r.stopReason = "bankroll_exhausted")

C8_Witness ==
  /\ call.op = "processBet"
  /\ ~prev.stopped /\ ~prev.awaitingDecision
  /\ prev.rounds > 0
  /\ config.tableMax # 0
  /\ getStake(strategy.ladders[prev.currentLadder + 1], prev.currentIndex)
       > config.tableMax
  /\ state = [prev EXCEPT !.stopped = TRUE, !.stopReason = "table_limit"]

\* C9: a settled bet at stake s adds s to pnl on a win and subtracts it on a
\* loss, adds 1 to rounds, s to totalWagered and 1 to the touches of the
\* pre-bet ladder only, and keeps maxStake, peakPnl and maxDrawdown as running
\* maxima (of s, of the new pnl, of new peakPnl - new pnl), whether or not the
\* bet stops the session.
C9_Settlement ==
  \A won \in BOOLEAN, decisionMode \in DecisionModes :
    LET stake == getStake(strategy.ladders[state.currentLadder + 1],
                          state.currentIndex)
        r == processBet(state, config, strategy, won, decisionMode)
    IN  (~state.stopped /\ ~state.awaitingDecision
           /\ config.bankroll + state.pnl >= stake
           /\ ~(config.tableMax # 0 /\ stake > config.tableMax))
          => /\ r.pnl = state.pnl + (IF won THEN stake ELSE 0 - stake)
             /\ r.rounds = state.rounds + 1
             /\ r.totalWagered = state.totalWagered + stake
             /\ r.maxStake = Max(state.maxStake, stake)
             /\ DOMAIN r.ladderTouches = DOMAIN state.ladderTouches
             /\ \A i \in DOMAIN state.ladderTouches :
                  r.ladderTouches[i] =
                    IF i = state.currentLadder
                    THEN state.ladderTouches[i] + 1
                    ELSE state.ladderTouches[i]
             /\ r.peakPnl = Max(state.peakPnl, r.pnl)
             /\ r.maxDrawdown = Max(state.maxDrawdown, r.peakPnl - r.pnl)

C9_Witness ==
  /\ SettledByLastCall
  /\ prev.maxDrawdown > 0
  /\ state.peakPnl > prev.peakPnl
  /\ state.maxDrawdown = prev.maxDrawdown
  /\ state.ladderTouches[prev.currentLadder]
       = prev.ladderTouches[prev.currentLadder] + 1

\* C10: a settled bet that neither stops the session nor triggers bridging nor
\* completes recovery steps within the same ladder: a win at rung k moves to
\* max(0, k-2), a loss below the top to min(maxIndex, k+1), inside
\* [0, maxIndex]; and a win at the top rung never triggers bridging.
C10_NormalStep ==
  \A won \in BOOLEAN, decisionMode \in DecisionModes :
    LET k == state.currentIndex
        maxIndex == getMaxIndex(strategy.ladders[state.currentLadder + 1])
        r == processBet(state, config, strategy, won, decisionMode)
    IN  (~state.stopped /\ ~state.awaitingDecision)
          => /\ (r.rounds = state.rounds + 1
                   /\ ~r.stopped
                   /\ r.pendingDecisionType # "bridging"
                   /\ ~(state.inRecovery /\ r.pnl >= state.recoveryTargetPnl))
                  => /\ r.currentLadder = state.currentLadder
                     /\ won => r.currentIndex = Max(0, k - 2)
                     /\ (~won /\ k < maxIndex)
                          => r.currentIndex = Min(maxIndex, k + 1)
                     /\ r.currentIndex \in 0..maxIndex
             /\ (won /\ k >= maxIndex)
                  => (r.pendingDecisionType # "bridging"
                      /\ r.topTouches = state.topTouches)

C10_Witness ==
  /\ SettledByLastCall
  /\ call.won
  /\ ~state.stopped
  /\ prev.currentIndex = 2
  /\ prev.currentIndex
       = getMaxIndex(strategy.ladders[prev.currentLadder + 1])
  /\ state.currentIndex = 0
  /\ state.currentLadder = prev.currentLadder
  /\ state.pendingDecisionType # "bridging"

\* C11 as stated: every losing bet processed from an active state at the top
\* rung of a non-last ladder under carry_over_index_delta leaves the session
\* awaiting a bridging decision, with topTouches one higher and the position
\* unchanged.
C11_AsStated ==
  \A decisionMode \in DecisionModes :
    LET maxIndex == getMaxIndex(strategy.ladders[state.currentLadder + 1])
        r == processBet(state, config, strategy, FALSE, decisionMode)
    IN  (~state.stopped /\ ~state.awaitingDecision
           /\ state.currentIndex = maxIndex
           /\ strategy.bridgingPolicy = "carry_over_index_delta"
           /\ state.currentLadder # Len(strategy.ladders) - 1)
          => /\ r.awaitingDecision
             /\ r.pendingDecisionType = "bridging"
             /\ r.topTouches = state.topTouches + 1
             /\ r.currentIndex = state.currentIndex
             /\ r.currentLadder = state.currentLadder

\* C11: a losing bet that is settled (stake affordable and within tableMax)
\* without meeting stop_loss or max_rounds, from an active state at the top
\* rung of a non-last ladder under carry_over_index_delta, leaves the session
\* awaiting a bridging decision, with topTouches one higher and the position
\* unchanged, in either decision mode.
C11_BridgingTrigger ==
  \A decisionMode \in DecisionModes :
    LET maxIndex == getMaxIndex(strategy.ladders[state.currentLadder + 1])
        stake == getStake(strategy.ladders[state.currentLadder + 1],
                          state.currentIndex)
        r == processBet(state, config, strategy, FALSE, decisionMode)
    IN  (~state.stopped /\ ~state.awaitingDecision
           /\ state.currentIndex = maxIndex
           /\ strategy.bridgingPolicy = "carry_over_index_delta"
           /\ state.currentLadder # Len(strategy.ladders) - 1
           /\ config.bankroll + state.pnl >= stake
           /\ ~(config.tableMax # 0 /\ stake > config.tableMax)
           /\ state.pnl - stake < config.profitTarget
           /\ stake - state.pnl < config.stopLossAbs
           /\ state.rounds + 1 < config.maxRounds)
          => /\ r.awaitingDecision
             /\ ~r.stopped
             /\ r.pendingDecisionType = "bridging"
             /\ r.topTouches = state.topTouches + 1
             /\ r.currentIndex = state.currentIndex
             /\ r.currentLadder = state.currentLadder
             /\ r.pnl = state.pnl - stake

C11_Witness ==
  /\ SettledByLastCall
  /\ ~call.won
  /\ strategy.bridgingPolicy = "carry_over_index_delta"
  /\ prev.currentIndex = getMaxIndex(strategy.ladders[prev.currentLadder + 1])
  /\ prev.currentIndex > 0
  /\ prev.currentLadder # Len(strategy.ladders) - 1
  /\ state.awaitingDecision
  /\ state.pendingDecisionType = "bridging"
  /\ state.topTouches = prev.topTouches + 1
  /\ state.currentIndex = prev.currentIndex

\* C12: a loss at the top rung that reaches the bridging handler (topTouches
\* goes up by one) stops the session with table_limit when the policy is
\* stop_at_table_limit or the current ladder is the last one, with or without
\* a tableMax; a bridging decision is requested exactly when neither holds.
C12_BridgingStops ==
  \A decisionMode \in DecisionModes :
    LET r == processBet(state, config, strategy, FALSE, decisionMode)
        mustStop == \/ strategy.bridgingPolicy = "stop_at_table_limit"
                    \/ state.currentLadder = Len(strategy.ladders) - 1
    IN  (~state.stopped /\ ~state.awaitingDecision
           /\ r.topTouches = state.topTouches + 1)
          => /\ mustStop => /\ r.stopped
                            /\ r.stopReason = "table_limit"
                            /\ ~r.awaitingDecision
                            /\ r.pendingDecisionType = "null"
             /\ ~mustStop => /\ ~r.stopped
                             /\ r.awaitingDecision
                             /\ r.pendingDecisionType = "bridging"

C12_Witness ==
  /\ SettledByLastCall
  /\ ~call.won
  /\ config.tableMax = 0
  /\ strategy.bridgingPolicy = "stop_at_table_limit"
  /\ prev.currentLadder # Len(strategy.ladders) - 1
  /\ state.topTouches = prev.topTouches + 1
  /\ state.stopped
  /\ state.stopReason = "table_limit"
  /\ ~state.awaitingDecision

\* C13: write_off on a state awaiting a bridging decision resets the position
\* to ladder 0, rung 0, clears the recovery fields and the pending decision,
\* and changes no other field, whatever the prior ladder, rung or recovery
\* status.
C13_WriteOff ==
  (state.awaitingDecision /\ state.pendingDecisionType = "bridging")
    => processBridgingDecision(state, strategy, "write_off")
         = [state EXCEPT !.currentLadder = 0,
                         !.currentIndex = 0,
                         !.inRecovery = FALSE,
                         !.recoveryTargetPnl = 0,
                         !.awaitingDecision = FALSE,
                         !.pendingDecisionType = "null"]

C13_Witness ==
  /\ call.op = "processBridgingDecision"
  /\ call.decision = "write_off"
  /\ prev.awaitingDecision
  /\ prev.pendingDecisionType = "bridging"
  /\ prev.inRecovery
  /\ prev.recoveryTargetPnl # 0
  /\ prev.currentLadder > 0
  /\ state.currentLadder = 0
  /\ ~state.inRecovery
  /\ state.pnl = prev.pnl

\* C14: carry_over on a state awaiting a bridging decision, not in recovery
\* and with pnl < 0, enters recovery with
\* recoveryTargetPnl = pnl + |pnl| * recoveryTargetPct and leaves pnl as it
\* is (the equation is stated multiplied by PctDen).
C14_RecoveryTarget ==
  LET r == processBridgingDecision(state, strategy, "carry_over")
  IN  (state.awaitingDecision /\ state.pendingDecisionType = "bridging"
         /\ ~state.inRecovery /\ state.pnl < 0)
        => /\ r.inRecovery
           /\ r.recoveryTargetPnl * PctDen
                = state.pnl * PctDen + Abs(state.pnl) * strategy.pctNum
           /\ r.pnl = state.pnl

C14_Witness ==
  /\ call.op = "processBridgingDecision"
  /\ call.decision = "carry_over"
  /\ prev.pendingDecisionType = "bridging"
  /\ ~prev.inRecovery
  /\ prev.pnl < 0
  /\ strategy.pctNum < PctDen
  /\ state.inRecovery
  /\ state.recoveryTargetPnl > prev.pnl
  /\ state.recoveryTargetPnl < 0

\* C15: carry_over on a state awaiting a bridging decision moves to the next
\* ladder at rung min(crossoverOffset, maxIndex of that ladder) and clears
\* awaitingDecision and pendingDecisionType.
C15_CarryOverPosition ==
  LET r == processBridgingDecision(state, strategy, "carry_over")
  IN  (state.awaitingDecision /\ state.pendingDecisionType = "bridging")
        => /\ r.currentLadder = state.currentLadder + 1
           /\ r.currentLadder <= Len(strategy.ladders) - 1
           /\ r.currentIndex =
                Min(strategy.crossoverOffset,
                    Len(strategy.ladders[state.currentLadder + 2].stakes) - 1)
           /\ ~r.awaitingDecision
           /\ r.pendingDecisionType = "null"

C15_Witness ==
  /\ call.op = "processBridgingDecision"
  /\ call.decision = "carry_over"
  /\ prev.pendingDecisionType = "bridging"
  /\ state.currentLadder = prev.currentLadder + 1
  /\ strategy.crossoverOffset
       > Len(strategy.ladders[state.currentLadder + 1].stakes) - 1
  /\ state.currentIndex
       = Len(strategy.ladders[state.currentLadder + 1].stakes) - 1
  /\ ~state.awaitingDecision

\* C16: after a normal step (bet settled, session not stopped, no bridging),
\* a session in recovery whose new pnl is at or above recoveryTargetPnl leaves
\* recovery and is reset to ladder 0, rung 0, whatever rung the step computed.
C16_RecoveryExit ==
  \A won \in BOOLEAN, decisionMode \in DecisionModes :
    LET r == processBet(state, config, strategy, won, decisionMode)
    IN  (~state.stopped /\ ~state.awaitingDecision
           /\ r.rounds = state.rounds + 1
           /\ ~r.stopped
           /\ r.pendingDecisionType # "bridging"
           /\ state.inRecovery
           /\ r.pnl >= state.recoveryTargetPnl)
          => /\ ~r.inRecovery
             /\ r.recoveryTargetPnl = 0
             /\ r.currentLadder = 0
             /\ r.currentIndex = 0

C16_Witness ==
  /\ SettledByLastCall
  /\ ~state.stopped
  /\ prev.inRecovery
  /\ prev.currentLadder > 0
  /\ state.pnl = prev.recoveryTargetPnl
  /\ ~state.inRecovery
  /\ state.recoveryTargetPnl = 0
  /\ state.currentLadder = 0
  /\ state.currentIndex = 0

\* C17: in every_bet mode processBet on an active state returns a state that
\* is stopped or awaiting a decision; the pending type is every_bet after a
\* bet settled without stopping and without bridging, and stays bridging after
\* a loss at the top rung that requested a bridging decision.  In
\* at_bridging_only mode processBet never sets the pending type every_bet.
C17_EveryBetMode ==
  \A won \in BOOLEAN :
    LET e == processBet(state, config, strategy, won, "every_bet")
        b == processBet(state, config, strategy, won, "at_bridging_only")
    IN  (~state.stopped /\ ~state.awaitingDecision)
          => /\ e.stopped \/ e.awaitingDecision
             /\ (~e.stopped /\ e.topTouches = state.topTouches)
                  => (e.rounds = state.rounds + 1
                      /\ e.pendingDecisionType = "every_bet")
             /\ (~e.stopped /\ e.topTouches = state.topTouches + 1)
                  => (~won /\ e.pendingDecisionType = "bridging")
             /\ b.pendingDecisionType # "every_bet"
             /\ e = IF b.stopped \/ b.awaitingDecision THEN b
                    ELSE [b EXCEPT !.awaitingDecision = TRUE,
                                   !.pendingDecisionType = "every_bet"]

C17_Witness ==
  /\ SettledByLastCall
  /\ call.decisionMode = "every_bet"
  /\ ~call.won
  /\ state.topTouches = prev.topTouches + 1
  /\ ~state.stopped
  /\ state.awaitingDecision
  /\ state.pendingDecisionType = "bridging"

\* C18: on a pending every_bet confirmation every decision other than
\* stop_session only clears awaitingDecision and pendingDecisionType: write_off
\* does not reset the position, carry_over neither advances the ladder nor
\* enters recovery.
C18_EveryBetContinue ==
  \A decision \in Decisions \ {"stop_session"} :
    (state.awaitingDecision /\ state.pendingDecisionType = "every_bet")
      => processBridgingDecision(state, strategy, decision)
           = [state EXCEPT !.awaitingDecision = FALSE,
                           !.pendingDecisionType = "null"]

C18_Witness ==
  /\ call.op = "processBridgingDecision"
  /\ call.decision = "write_off"
  /\ prev.awaitingDecision
  /\ prev.pendingDecisionType = "every_bet"
  /\ prev.currentIndex > 0
  /\ state.currentIndex = prev.currentIndex
  /\ state.currentLadder = prev.currentLadder
  /\ ~state.awaitingDecision
  /\ ~state.stopped

\* C19: stop_session on a state awaiting a decision of either type stops the
\* session with user_stopped, clears the pending decision and changes nothing
\* else; and stopReason becomes user_stopped only by a stop_session decision
\* taken while awaitingDecision was true.
C19_StopSession ==
  /\ [](state.awaitingDecision
          => processBridgingDecision(state, strategy, "stop_session")
               = [state EXCEPT !.stopped = TRUE,
                               !.stopReason = "user_stopped",
                               !.awaitingDecision = FALSE,
                               !.pendingDecisionType = "null"])
  /\ [][(state'.stopReason = "user_stopped"
           /\ state.stopReason # "user_stopped")
          => (state.awaitingDecision
              /\ call'.op = "processBridgingDecision"
              /\ call'.decision = "stop_session")]_vars

C19_Witness ==
  /\ call.op = "processBridgingDecision"
  /\ call.decision = "stop_session"
  /\ prev.awaitingDecision
  /\ prev.pendingDecisionType = "bridging"
  /\ prev.inRecovery
  /\ state.stopped
  /\ state.stopReason = "user_stopped"
  /\ state.inRecovery
  /\ state.pendingDecisionType = "null"

\* C20: an unrecognized decision on a state awaiting a bridging decision
\* returns the state unchanged, so the session still awaits the bridging
\* decision and every following bet is a no-op.
C20_UnrecognizedDecision ==
  LET r == processBridgingDecision(state, strategy, "unrecognized")
  IN  (state.awaitingDecision /\ state.pendingDecisionType = "bridging")
        => /\ r = state
           /\ r.awaitingDecision
           /\ r.pendingDecisionType = "bridging"
           /\ \A won \in BOOLEAN, decisionMode \in DecisionModes :
                processBet(r, config, strategy, won, decisionMode) = state

C20_Witness ==
  /\ call.op = "processBridgingDecision"
  /\ call.decision = "unrecognized"
  /\ prev.awaitingDecision
  /\ prev.pendingDecisionType = "bridging"
  /\ state = prev

\* C21: createInitialState(strategy, startingLadder) returns the state on
\* startingLadder clamped into [0, number of ladders - 1] (0 when the argument
\* is left out) at rung 0, with every counter and the recovery target 0, a
\* zero touch count for each ladder, the three flags false and stopReason and
\* pendingDecisionType null.
C21_InitialState ==
  /\ \A startingLadder \in (0 - MaxProbeIndex)..MaxProbeIndex :
       LET r == createInitialState(strategy, startingLadder)
           last == Len(strategy.ladders) - 1
       IN  /\ r.currentLadder = IF startingLadder < 0 THEN 0
                                ELSE IF startingLadder > last THEN last
                                ELSE startingLadder
           /\ r.currentIndex = 0
           /\ r.pnl = 0 /\ r.rounds = 0 /\ r.totalWagered = 0
           /\ r.maxStake = 0 /\ r.maxDrawdown = 0 /\ r.peakPnl = 0
           /\ r.topTouches = 0 /\ r.recoveryTargetPnl = 0
           /\ DOMAIN r.ladderTouches = 0..last
           /\ \A l \in 0..last : r.ladderTouches[l] = 0
           /\ ~r.stopped /\ ~r.inRecovery /\ ~r.awaitingDecision
           /\ r.stopReason = "null" /\ r.pendingDecisionType = "null"
  /\ call.op = "createInitialState"
       => (state = createInitialState(strategy, config.startingLadder)
           /\ state.currentLadder \in 0..(Len(strategy.ladders) - 1))

C21_Witness ==
  /\ call.op = "createInitialState"
  /\ Len(strategy.ladders) > 1
  /\ config.startingLadder > Len(strategy.ladders) - 1
  /\ state.currentLadder = Len(strategy.ladders) - 1
  /\ state.currentIndex = 0
  /\ state.rounds = 0

\* C22: no lookup made by processBet or processBridgingDecision misses: the
\* current ladder exists and has a touch count, the clamped rung exists, and
\* whenever a bridging decision is pending (so that carry_over would run) the
\* next ladder exists; the same holds of every state processBet returns.
C22_LookupsDefined ==
  /\ state.currentLadder + 1 \in DOMAIN strategy.ladders
  /\ state.currentLadder \in DOMAIN state.ladderTouches
  /\ Max(0, Min(state.currentIndex,
               Len(strategy.ladders[state.currentLadder + 1].stakes) - 1)) + 1
       \in DOMAIN strategy.ladders[state.currentLadder + 1].stakes
  /\ (state.awaitingDecision /\ state.pendingDecisionType = "bridging")
       => state.currentLadder + 2 \in DOMAIN strategy.ladders
  /\ \A won \in BOOLEAN, decisionMode \in DecisionModes :
       LET r == processBet(state, config, strategy, won, decisionMode)
       IN  /\ r.currentLadder + 1 \in DOMAIN strategy.ladders
           /\ (r.awaitingDecision /\ r.pendingDecisionType = "bridging")
                => r.currentLadder + 2 \in DOMAIN strategy.ladders

C22_Witness ==
  /\ call.op = "processBridgingDecision"
  /\ call.decision = "carry_over"
  /\ prev.pendingDecisionType = "bridging"
  /\ state.currentLadder = prev.currentLadder + 1
  /\ state.currentLadder = Len(strategy.ladders) - 1
  /\ state.currentLadder \in DOMAIN state.ladderTouches

\* C23: in every reachable state inRecovery = false implies
\* recoveryTargetPnl = 0.
C23_TargetResetOutsideRecovery ==
  ~state.inRecovery => state.recoveryTargetPnl = 0

C23_Witness ==
  /\ SettledByLastCall
  /\ prev.inRecovery
  /\ prev.recoveryTargetPnl # 0
  /\ ~state.inRecovery
  /\ state.recoveryTargetPnl = 0

\* C24: getStake(ladder, i) is the configured stake for an index in range,
\* the stake of rung 0 for every negative index and the stake of the top rung
\* for every index above maxIndex.
C24_GetStakeClamps ==
  \A l \in DOMAIN strategy.ladders :
    \A i \in (0 - MaxProbeIndex)..MaxProbeIndex :
      LET stakes == strategy.ladders[l].stakes
          maxIndex == Len(stakes) - 1
      IN  /\ i < 0 => getStake(strategy.ladders[l], i) = stakes[1]
          /\ i > maxIndex
               => getStake(strategy.ladders[l], i) = stakes[maxIndex + 1]
          /\ (0 <= i /\ i <= maxIndex)
               => getStake(strategy.ladders[l], i) = stakes[i + 1]
          /\ getStake(strategy.ladders[l], i) > 0

C24_Witness ==
  /\ SettledByLastCall
  /\ prev.currentIndex > 0
  /\ state.totalWagered = prev.totalWagered
       + strategy.ladders[prev.currentLadder + 1].stakes[prev.currentIndex + 1]
  /\ \E l \in DOMAIN strategy.ladders :
       /\ Len(strategy.ladders[l].stakes) > 1
       /\ getStake(strategy.ladders[l], 0 - MaxProbeIndex)
            = strategy.ladders[l].stakes[1]
       /\ getStake(strategy.ladders[l], MaxProbeIndex)
            = strategy.ladders[l].stakes[Len(strategy.ladders[l].stakes)]
       /\ strategy.ladders[l].stakes[1]
            # strategy.ladders[l].stakes[Len(strategy.ladders[l].stakes)]

\* C28: stop conditions come before stepping and bridging: a settled bet that
\* meets profit_target, stop_loss or max_rounds stops with that reason and
\* leaves topTouches, the pending decision, the position and the recovery
\* fields as they were, also for a loss at the top rung and for a win in
\* recovery.
C28_StopBeforeStep ==
  \A won \in BOOLEAN, decisionMode \in DecisionModes :
    LET stake == getStake(strategy.ladders[state.currentLadder + 1],
                          state.currentIndex)
        newPnl == state.pnl + (IF won THEN stake ELSE 0 - stake)
        r == processBet(state, config, strategy, won, decisionMode)
    IN  (~state.stopped /\ ~state.awaitingDecision
           /\ config.bankroll + state.pnl >= stake
           /\ ~(config.tableMax # 0 /\ stake > config.tableMax)
           /\ (\/ newPnl >= config.profitTarget
               \/ 0 - newPnl >= config.stopLossAbs
               \/ state.rounds + 1 >= config.maxRounds))
          => /\ r.stopped
             /\ r.stopReason \in {"profit_target", "stop_loss", "max_rounds"}
             /\ r.rounds = state.rounds + 1
             /\ r.topTouches = state.topTouches
             /\ ~r.awaitingDecision
             /\ r.pendingDecisionType = "null"
             /\ r.currentLadder = state.currentLadder
             /\ r.currentIndex = state.currentIndex
             /\ r.inRecovery = state.inRecovery
             /\ r.recoveryTargetPnl = state.recoveryTargetPnl

C28_Witness ==
  /\ SettledByLastCall
  /\ ~call.won
  /\ prev.inRecovery
  /\ prev.currentIndex = getMaxIndex(strategy.ladders[prev.currentLadder + 1])
  /\ prev.currentLadder # Len(strategy.ladders) - 1
  /\ state.stopped
  /\ state.stopReason = "max_rounds"
  /\ state.topTouches = prev.topTouches
  /\ state.inRecovery
  /\ ~state.awaitingDecision

\* C29 as stated: whenever carry_over enters recovery from pnl < 0 the target
\* lies strictly between the loss and break-even.
C29_AsStated ==
  LET r == processBridgingDecision(state, strategy, "carry_over")
  IN  (state.awaitingDecision /\ state.pendingDecisionType = "bridging"
         /\ ~state.inRecovery /\ state.pnl < 0)
        => (state.pnl < r.recoveryTargetPnl /\ r.recoveryTargetPnl < 0)

\* C29: whenever carry_over enters recovery from pnl < 0 the target lies
\* above the loss and at or below break-even: pnl < recoveryTargetPnl <= 0,
\* with recoveryTargetPnl = 0 exactly when recoveryTargetPct = 1.
C29_TargetBetweenLossAndZero ==
  LET r == processBridgingDecision(state, strategy, "carry_over")
  IN  (state.awaitingDecision /\ state.pendingDecisionType = "bridging"
         /\ ~state.inRecovery /\ state.pnl < 0)
        => /\ state.pnl < r.recoveryTargetPnl
           /\ r.recoveryTargetPnl <= 0
           /\ r.recoveryTargetPnl = 0 <=> strategy.pctNum = PctDen

C29_Witness ==
  /\ call.op = "processBridgingDecision"
  /\ call.decision = "carry_over"
  /\ prev.pendingDecisionType = "bridging"
  /\ ~prev.inRecovery
  /\ prev.pnl < 0
  /\ strategy.pctNum = PctDen
  /\ state.inRecovery
  /\ state.recoveryTargetPnl = 0

\* C30: carry_over on a bridging decision of a session already in recovery
\* keeps inRecovery and the recoveryTargetPnl of the first entry; only the
\* ladder position advances and the pending decision is cleared.
C30_SecondEscalationKeepsTarget ==
  LET r == processBridgingDecision(state, strategy, "carry_over")
  IN  (state.awaitingDecision /\ state.pendingDecisionType = "bridging"
         /\ state.inRecovery)
        => /\ r.inRecovery
           /\ r.recoveryTargetPnl = state.recoveryTargetPnl
           /\ r.currentLadder = state.currentLadder + 1
           /\ r = [state EXCEPT !.currentLadder = r.currentLadder,
                                !.currentIndex = r.currentIndex,
                                !.awaitingDecision = FALSE,
                                !.pendingDecisionType = "null"]

C30_Witness ==
  /\ call.op = "processBridgingDecision"
  /\ call.decision = "carry_over"
  /\ prev.pendingDecisionType = "bridging"
  /\ prev.inRecovery
  /\ prev.pnl < 0
  /\ state.inRecovery
  /\ state.recoveryTargetPnl = prev.recoveryTargetPnl
  /\ state.recoveryTargetPnl * PctDen
       # prev.pnl * PctDen + Abs(prev.pnl) * strategy.pctNum
  /\ state.currentLadder = prev.currentLadder + 1

\* C25 as stated: a lookup by a name that is not in the catalogue fails with
\* an unknown-preset error, for getPreset and for createStrategyFromPreset
\* alike.
C25_AsStated ==
  (lookup.op \in {"getPreset", "createStrategyFromPreset"}
     /\ lookup.presetName \notin DOMAIN PRESETS)
    => "thrown" \in DOMAIN lookup.result

\* C25: for a name the PRESETS object has no property of, getPreset returns
\* undefined (it does not fail) and createStrategyFromPreset throws
\* "Unknown preset: <name>"; a name outside the catalogue that the object
\* inherits (constructor, toString) is not reported unknown by either
\* operation; for a known name getPreset returns the preset and
\* createStrategyFromPreset returns a strategy with the given ladders and
\* exactly that preset's bridgingPolicy, recoveryTargetPct and crossoverOffset.
C25_PresetLookup ==
  LET name == lookup.presetName
      known == name \in DOMAIN PRESETS
      inherited == name \in ObjectPrototypeKeys
  IN  /\ lookup.op = "getPreset" =>
           /\ (~known /\ ~inherited) => lookup.result = Undefined
           /\ inherited => (lookup.result # Undefined
                            /\ "thrown" \notin DOMAIN lookup.result)
           /\ known => (lookup.result = PRESETS[name]
                        /\ lookup.result.name = name)
      /\ lookup.op = "createStrategyFromPreset" =>
           /\ (~known /\ ~inherited)
                => lookup.result = [thrown |-> "Unknown preset: " \o name]
           /\ inherited => "thrown" \notin DOMAIN lookup.result
           /\ known =>
                lookup.result =
                  [ladders |-> lookup.ladders,
                   bridgingPolicy |-> PRESETS[name].bridgingPolicy,
                   recoveryTargetPct |-> PRESETS[name].recoveryTargetPct,
                   crossoverOffset |-> PRESETS[name].crossoverOffset]

C25_Witness ==
  /\ lookup.op = "createStrategyFromPreset"
  /\ lookup.presetName = "nonexistent"
  /\ lookup.result = [thrown |-> "Unknown preset: nonexistent"]

\* C26: in the session store the bet history is the record of the settled
\* bets: betHistory has exactly state.rounds entries and the i-th entry has
\* round = i (so a recordBet call that settles nothing adds no entry).
C26_HistoryOfSettledBets ==
  state # Null =>
    /\ Len(store.betHistory) = state.rounds
    /\ \A i \in 1..Len(store.betHistory) : store.betHistory[i].round = i

\* C27: startSession(config, strategy) creates the initial state on the
\* ladder config.startingLadder clamped into the ladder range, at rung 0, with
\* an empty bet history.
C27_StartSessionOnStartingLadder ==
  call.op = "startSession" =>
    /\ state.currentLadder
         = Max(0, Min(config.startingLadder, Len(strategy.ladders) - 1))
    /\ state.currentIndex = 0
    /\ store.betHistory = <<>>

\* the latest call was carry_over on a bridging decision of a session that
\* was not in recovery and had pnl >= 0
AfterCarryOverInProfit ==
  /\ call.op = "processBridgingDecision"
  /\ call.decision = "carry_over"
  /\ prev.awaitingDecision
  /\ prev.pendingDecisionType = "bridging"
  /\ ~prev.inRecovery
  /\ prev.pnl >= 0

\* C31 as stated: carry_over at pnl >= 0 outside recovery sets the target to
\* pnl and enters recovery, and a win as the very next bet leaves the session
\* out of recovery at ladder 0, rung 0.
C31_AsStated ==
  /\ (state.awaitingDecision /\ state.pendingDecisionType = "bridging"
        /\ ~state.inRecovery /\ state.pnl >= 0)
       => LET r == processBridgingDecision(state, strategy, "carry_over")
          IN  r.inRecovery /\ r.recoveryTargetPnl = state.pnl
  /\ AfterCarryOverInProfit
       => \A decisionMode \in DecisionModes :
            LET r == processBet(state, config, strategy, TRUE, decisionMode)
            IN  ~r.inRecovery /\ r.currentLadder = 0 /\ r.currentIndex = 0

\* C31: carry_over at pnl >= 0 outside recovery sets the target to pnl and
\* enters recovery; a win as the very next bet, when it is settled (stake
\* affordable and within tableMax) without meeting a stop condition, leaves
\* the session out of recovery at ladder 0, rung 0 with the target reset.
C31_ProfitCarryOver ==
  /\ (state.awaitingDecision /\ state.pendingDecisionType = "bridging"
        /\ ~state.inRecovery /\ state.pnl >= 0)
       => LET r == processBridgingDecision(state, strategy, "carry_over")
          IN  r.inRecovery /\ r.recoveryTargetPnl = state.pnl
  /\ AfterCarryOverInProfit
       => \A decisionMode \in DecisionModes :
            LET stake == strategy.ladders[state.currentLadder + 1]
                           .stakes[state.currentIndex + 1]
                r == processBet(state, config, strategy, TRUE, decisionMode)
            IN  (/\ config.bankroll + state.pnl >= stake
                 /\ ~(config.tableMax # 0 /\ stake > config.tableMax)
                 /\ state.pnl + stake < config.profitTarget
                 /\ 0 - (state.pnl + stake) < config.stopLossAbs
                 /\ state.rounds + 1 < config.maxRounds)
                  => /\ r.rounds = state.rounds + 1
                     /\ ~r.stopped
                     /\ ~r.inRecovery
                     /\ r.recoveryTargetPnl = 0
                     /\ r.currentLadder = 0
                     /\ r.currentIndex = 0

C31_Witness ==
  /\ SettledByLastCall
  /\ call.won
  /\ prev.inRecovery
  /\ prev.pnl >= 0
  /\ prev.recoveryTargetPnl = prev.pnl
  /\ prev.currentLadder > 0
  /\ ~state.stopped
  /\ ~state.inRecovery
  /\ state.currentLadder = 0
  /\ state.currentIndex = 0

\* C32 as stated: after carry_over at pnl >= 0 the very next settled bet,
\* won or lost, leaves the session out of recovery.
C32_AsStated ==
  AfterCarryOverInProfit
    => \A won \in BOOLEAN, decisionMode \in DecisionModes :
         LET r == processBet(state, config, strategy, won, decisionMode)
         IN  r.rounds = state.rounds + 1 => ~r.inRecovery

\* C32: after carry_over at pnl >= 0 the very next settled bet leaves
\* recovery exactly when it is a win that does not stop the session; after a
\* loss, or a win that meets a stop condition, the session is still in
\* recovery with the same target.
C32_ExitOnNextWinOnly ==
  AfterCarryOverInProfit
    => \A won \in BOOLEAN, decisionMode \in DecisionModes :
         LET r == processBet(state, config, strategy, won, decisionMode)
         IN  r.rounds = state.rounds + 1
               => /\ ~r.inRecovery <=> (won /\ ~r.stopped)
                  /\ r.inRecovery
                       => r.recoveryTargetPnl = state.recoveryTargetPnl

C32_Witness ==
  /\ SettledByLastCall
  /\ ~call.won
  /\ prev.inRecovery
  /\ prev.pnl >= 0
  /\ prev.recoveryTargetPnl = prev.pnl
  /\ state.currentIndex = prev.currentIndex + 1
  /\ ~state.stopped
  /\ state.inRecovery
  /\ state.recoveryTargetPnl = prev.recoveryTargetPnl
  /\ state.pnl < state.recoveryTargetPnl

\* C33 as stated: topTouches counts the settled losing bets placed at the top
\* rung of the then-current ladder: it is 0 at the start, every such bet adds
\* exactly 1, and no other call changes it.
C33_AsStated ==
  /\ call.op = "createInitialState" => state.topTouches = 0
  /\ call.op # "createInitialState"
       => state.topTouches
            = prev.topTouches
              + (IF /\ SettledByLastCall
                    /\ ~call.won
                    /\ prev.currentIndex
                         >= Len(strategy.ladders[prev.currentLadder + 1].stakes)
                              - 1
                 THEN 1 ELSE 0)

\* C33: topTouches counts the settled losing bets placed at the top rung of
\* the then-current ladder that did not meet a stop condition (stop_loss or
\* max_rounds on the post-settlement pnl and rounds): it is 0 at the start,
\* every such bet adds exactly 1, and no other call (a win, a loss below the
\* top, a loss at the top that stops on a stop condition, a decision) changes
\* it.
C33_TopTouchesCount ==
  /\ call.op = "createInitialState" => state.topTouches = 0
  /\ call.op # "createInitialState"
       => state.topTouches
            = prev.topTouches
              + (IF /\ SettledByLastCall
                    /\ ~call.won
                    /\ prev.currentIndex
                         >= Len(strategy.ladders[prev.currentLadder + 1].stakes)
                              - 1
                    /\ state.pnl < config.profitTarget
                    /\ 0 - state.pnl < config.stopLossAbs
                    /\ state.rounds < config.maxRounds
                 THEN 1 ELSE 0)

C33_Witness ==
  /\ SettledByLastCall
  /\ ~call.won
  /\ prev.currentIndex = getMaxIndex(strategy.ladders[prev.currentLadder + 1])
  /\ prev.topTouches = 1
  /\ state.topTouches = 2
  /\ state.rounds < config.maxRounds

C35_SessionTerminates ==
  /\ <>state.stopped
  /\ [](state.rounds <= config.maxRounds)
  /\ []((call.op = "processBet" /\ ~prev.stopped /\ ~prev.awaitingDecision)
          => (state.stopped \/ state.rounds = prev.rounds + 1))

C35_Witness ==
  /\ state.stopped
  /\ state.stopReason = "max_rounds"
  /\ config.maxRounds = MaxRounds
  /\ state.rounds = config.maxRounds
  /\ state.inRecovery
  /\ state.currentLadder > 0

\* C36: the engine never settles a bet the bankroll cannot cover: in every
\* reachable state bankroll + pnl >= 0, and every settled bet had a stake of
\* at most the bankroll left before it.
C36_LossWithinBankroll ==
  /\ config.bankroll + state.pnl >= 0
  /\ SettledByLastCall
       => config.bankroll + prev.pnl
            >= strategy.ladders[prev.currentLadder + 1]
                 .stakes[prev.currentIndex + 1]

C36_Witness ==
  /\ SettledByLastCall
  /\ ~call.won
  /\ config.stopLossAbs > config.bankroll
  /\ prev.pnl < 0
  /\ config.bankroll + state.pnl = 0

\* C37: with a positive tableMax no bet above it is ever settled: in every
\* reachable state maxStake <= tableMax, and a processBet call whose stake
\* exceeds tableMax settles nothing.
C37_StakeWithinTableMax ==
  config.tableMax # 0
    => /\ state.maxStake <= config.tableMax
       /\ (call.op = "processBet"
             /\ strategy.ladders[prev.currentLadder + 1]
                  .stakes[prev.currentIndex + 1] > config.tableMax)
            => (state.rounds = prev.rounds
                /\ state.totalWagered = prev.totalWagered)

C37_Witness ==
  /\ call.op = "processBet"
  /\ config.tableMax # 0
  /\ prev.inRecovery
  /\ prev.currentLadder > 0
  /\ ~prev.stopped
  /\ strategy.ladders[prev.currentLadder + 1].stakes[prev.currentIndex + 1]
       > config.tableMax
  /\ state.stopped
  /\ state.stopReason = "table_limit"
  /\ state.rounds = prev.rounds
  /\ state.maxStake > 0
  /\ state.maxStake <= config.tableMax

\* C38: in every reachable state that is not stopped none of the stop
\* conditions holds (-stopLossAbs < pnl < profitTarget and rounds <
\* maxRounds); rounds never exceeds maxRounds; and pnl >= profitTarget holds
\* exactly when stopReason is profit_target, which is exactly when
\* isWinningSession is true.
C38_NoStopConditionWhileActive ==
  /\ ~state.stopped
       => /\ 0 - config.stopLossAbs < state.pnl
          /\ state.pnl < config.profitTarget
          /\ state.rounds < config.maxRounds
  /\ state.rounds <= config.maxRounds
  /\ state.pnl >= config.profitTarget <=> state.stopReason = "profit_target"
  /\ isWinningSession(state) <=> state.stopReason = "profit_target"
  /\ isWinningSession(state) <=> state.pnl >= config.profitTarget

C38_Witness ==
  /\ SettledByLastCall
  /\ call.won
  /\ prev.pnl < config.profitTarget
  /\ state.pnl >= config.profitTarget
  /\ state.stopped
  /\ state.stopReason = "profit_target"
  /\ state.rounds = config.maxRounds
  /\ isWinningSession(state)

\* C39 as stated: an active session in recovery has pnl <= recoveryTargetPnl,
\* and recovery is only ever left by a winning bet that reaches the target.
C39_AsStated ==
  /\ (~state.stopped /\ state.inRecovery)
       => state.pnl <= state.recoveryTargetPnl
  /\ (call.op # "createInitialState" /\ prev.inRecovery /\ ~state.inRecovery)
       => /\ SettledByLastCall
          /\ call.won
          /\ state.pnl >= prev.recoveryTargetPnl

\* C39: an active session in recovery has pnl <= recoveryTargetPnl, and a bet
\* leaves recovery only as a winning bet that reaches the target, never as a
\* losing bet; the one other way out of recovery is the write_off decision on
\* a pending bridging decision.
C39_RecoveryBelowTarget ==
  /\ (~state.stopped /\ state.inRecovery)
       => state.pnl <= state.recoveryTargetPnl
  /\ (call.op = "processBet" /\ prev.inRecovery /\ ~state.inRecovery)
       => /\ state.rounds = prev.rounds + 1
          /\ call.won
          /\ state.pnl >= prev.recoveryTargetPnl
  /\ (call.op = "processBridgingDecision" /\ prev.inRecovery
        /\ ~state.inRecovery)
       => /\ call.decision = "write_off"
          /\ prev.awaitingDecision
          /\ prev.pendingDecisionType = "bridging"

C39_Witness ==
  /\ SettledByLastCall
  /\ call.won
  /\ prev.inRecovery
  /\ prev.recoveryTargetPnl < 0
  /\ prev.pnl < prev.recoveryTargetPnl
  /\ state.pnl >= prev.recoveryTargetPnl
  /\ ~state.stopped
  /\ ~state.inRecovery

\* C40: in every reachable state inRecovery implies currentLadder >= 1, and
\* outside recovery currentLadder is 0 or the ladder createInitialState
\* started on; a call raises currentLadder only as a carry_over, which leaves
\* the session in recovery.
C40_EscalationMeansRecovery ==
  /\ state.inRecovery => state.currentLadder >= 1
  /\ ~state.inRecovery
       => state.currentLadder
            \in {0, Max(0, Min(config.startingLadder,
                               Len(strategy.ladders) - 1))}
  /\ (call.op # "createInitialState"
        /\ state.currentLadder > prev.currentLadder)
       => /\ call.op = "processBridgingDecision"
          /\ call.decision = "carry_over"
          /\ state.currentLadder = prev.currentLadder + 1
          /\ state.inRecovery

C40_Witness ==
  /\ SettledByLastCall
  /\ call.won
  /\ config.startingLadder = 1
  /\ prev.inRecovery
  /\ prev.currentLadder = 2
  /\ ~state.inRecovery
  /\ state.currentLadder = 0
  /\ ~state.stopped
====
